---- MODULE Spec2Model ----
(***************************************************************************)
(* Voting power table of the btcstaking keeper: the per-block tally        *)
(* (RecordVotingPowerTable), the height-partitioned store it writes, and   *)
(* the activation height derived from that store.                          *)
(*                                                                         *)
(* Keys and values are byte strings (sequences of 0..255), as in the       *)
(* KVStore.  Powers and heights stay far below 2^31, so the uint64         *)
(* additions of the tally never wrap within the bounds explored here.      *)
(*                                                                         *)
(* Spec       one tally per block, taken as one step                       *)
(* SpecReplay the tally run again at the same height                       *)
(* SpecSteps  the tally turn by turn of its loops, with a block commit,    *)
(*            queries on the committed state and corrupted records         *)
(* SpecMsg    MsgAddBlsSig.ValidateBasic and GetSigners                    *)
(***************************************************************************)
EXTENDS Integers, Sequences, FiniteSets, TLC

\* ------------------------------------------------------------------ bounds
\* number of blocks explored
MaxBlocks == 3
\* number of registry / delegation / parameter / tip changes in one run
MaxChanges == 2
\* length of a BIP340 public key in the model (32 bytes in the chain)
PkLen == 2
\* first block height of a run; 255 makes the runs cross a byte boundary
FirstHeight == 255
\* number of repeated tallies in one run
MaxReplays == 2

\* width of a big-endian uint64
Uint64Len == 8

Heights == FirstHeight .. (FirstHeight + MaxBlocks - 1)

\* ------------------------------------------------------------------- bytes
RECURSIVE Uint64ToBigEndianN(_, _)
Uint64ToBigEndianN(v, n) ==
    IF n = 0 THEN <<>>
    ELSE Append(Uint64ToBigEndianN(v \div 256, n - 1), v % 256)

\* sdk.Uint64ToBigEndian: the 8 bytes of v, most significant first
Uint64ToBigEndian(v) == Uint64ToBigEndianN(v, Uint64Len)

RECURSIVE BigEndianValue(_, _)
BigEndianValue(bz, n) ==
    IF n = 0 THEN 0 ELSE BigEndianValue(bz, n - 1) * 256 + bz[n]

\* a decoder that folds the whole slice instead of its first 8 bytes
BigEndianWholeSlice(bz) == BigEndianValue(bz, Len(bz))

\* sdk.BigEndianToUint64: 0 for the empty slice, else binary.BigEndian.Uint64,
\* which reads the first 8 bytes of the slice and ignores the rest
BigEndianToUint64(bz) ==
    IF Len(bz) = 0 THEN 0 ELSE BigEndianValue(bz, Uint64Len)

\* bytes.Compare(a, b) < 0: the order of a KVStore iterator
RECURSIVE BytesLess(_, _)
BytesLess(a, b) ==
    IF Len(a) = 0 THEN Len(b) > 0
    ELSE IF Len(b) = 0 THEN FALSE
    ELSE IF a[1] # b[1] THEN a[1] < b[1]
    ELSE BytesLess(Tail(a), Tail(b))

\* the keys of S in iterator (ascending byte) order
RECURSIVE KeysInOrder(_)
KeysInOrder(S) ==
    IF S = {} THEN <<>>
    ELSE LET m == CHOOSE x \in S : \A y \in S \ {x} : BytesLess(x, y)
         IN  <<m>> \o KeysInOrder(S \ {m})

HasPrefix(bz, p) == Len(bz) >= Len(p) /\ SubSeq(bz, 1, Len(p)) = p

\* --------------------------------------------------------------- universe
\* a public key whose last byte is i
Pk(i) == [j \in 1 .. PkLen |-> IF j = PkLen THEN i ELSE 0]

PKA == Pk(1)
PKB == Pk(2)
PKC == Pk(3)
PKD == Pk(4)
ValKeys == {PKA, PKB, PKC, PKD}

DelA == Pk(11)
DelB == Pk(12)

Deleg(v, d, sat, s, e, sigs) ==
    [val |-> v, del |-> d, sat |-> sat, start |-> s, end |-> e, sigs |-> sigs]

\* the delegations of the scenario: A scores 100, B 50 + 30, C 80, D 500
ScenarioDelegations ==
    { Deleg(PKA, DelA, 100, 1, 9, 2),
      Deleg(PKB, DelA, 50, 1, 9, 2),
      Deleg(PKB, DelB, 30, 1, 9, 2),
      Deleg(PKC, DelA, 80, 1, 9, 2),
      Deleg(PKD, DelA, 500, 1, 9, 2) }

\* the delegations a run can hold: those of the scenario, one that lacks a
\* signature of a quorum of 2, one that a window of 2 lets expire at tip 2
DelegationUniverse ==
    ScenarioDelegations \cup
    { Deleg(PKC, DelB, 20, 1, 9, 1),
      Deleg(PKA, DelA, 7, 1, 3, 2) }

Quorums == {1, 2}
Caps == {0, 1, 2}
Windows == {1, 2}
TipErr == [ok |-> FALSE, height |-> 0]
TipOk(t) == [ok |-> TRUE, height |-> t]
OkTips == {TipOk(0), TipOk(2)}
TipResults == OkTips \cup {TipErr}


\* ------------------------------------------------------------------- state
VARIABLES
    blockHeight,        \* sdk.UnwrapSDKContext(ctx).BlockHeight()
    tallied,            \* the EndBlock of blockHeight has run
    btcValidatorStore,  \* validator key -> [slashed], the validator registry
    btcDelegations,     \* the delegations held by the delegation stores
    params,             \* btcstaking params: CovenantQuorum, MaxActiveBtcValidators
    btccParams,         \* btccheckpoint params: CheckpointFinalizationTimeout
    btcTip,             \* what GetCurrentBTCHeight returns: [ok, height]
    store,              \* the KVStore under VotingPowerKey: key bytes -> value bytes
    changes,            \* number of registry/delegation/parameter/tip changes so far
    history,            \* the tallies run so far: <<[height, cfg, before, outcome]>>
    run,                \* where the tally in progress stands: [pc, iter, active, at]
    committed,          \* the store as of the last block commit, what queries read
    msg                 \* a MsgAddBlsSig and what its two methods gave

vars == <<blockHeight, tallied, btcValidatorStore, btcDelegations, params,
          btccParams, btcTip, store, changes, history, run, committed, msg>>

\* no tally in progress
Idle == [pc |-> "idle", iter |-> <<>>, active |-> <<>>, at |-> <<>>]

\* no message received
NoMsg == [received |-> FALSE]

\* what one run of the tally reads, besides the height and the store
Cfg ==
    [vals |-> btcValidatorStore, dels |-> btcDelegations,
     quorum |-> params.CovenantQuorum, cap |-> params.MaxActiveBtcValidators,
     w |-> btccParams.CheckpointFinalizationTimeout, tip |-> btcTip]

EmptyStore == [k \in {} |-> <<>>]

\* ----------------------------------------------------------- collaborators
\* bbn.NewBIP340PubKey: fails unless the slice has the length of a public key
NewBIP340PubKeyOk(bz) == Len(bz) = PkLen

\* GetBTCValidator: fails on a stored validator that does not unmarshal
GetBTCValidatorOk(btcVal) == "unmarshalErr" \notin DOMAIN btcVal

\* getBTCDelegatorDelegations: fails when a stored delegation of the pair does
\* not unmarshal
BTCDelegatorDelegationsOk(btcDels) ==
    \A d \in btcDels : "unmarshalErr" \notin DOMAIN d

\* BIP340PubKey.MarshalHex: two hexadecimal digits per byte
RECURSIVE MarshalHex(_)
MarshalHex(bz) ==
    IF Len(bz) = 0 THEN <<>>
    ELSE <<bz[1] \div 16, bz[1] % 16>> \o MarshalHex(Tail(bz))

\* BTCDelegation.VotingPower: the staked value while the delegation is within
\* its confirmation window and holds a quorum of covenant signatures, else 0
DelegationVotingPower(d, btcHeight, w, covenantQuorum) ==
    IF d.start <= btcHeight /\ btcHeight + w <= d.end /\ d.sigs >= covenantQuorum
    THEN d.sat ELSE 0

\* BTCDelegatorDelegations.VotingPower: the sum over the delegations of one
\* (validator, delegator) pair
RECURSIVE BTCDelsVotingPower(_, _, _, _)
BTCDelsVotingPower(btcDels, btcHeight, w, covenantQuorum) ==
    IF btcDels = {} THEN 0
    ELSE LET d == CHOOSE x \in btcDels : TRUE
         IN  DelegationVotingPower(d, btcHeight, w, covenantQuorum)
             + BTCDelsVotingPower(btcDels \ {d}, btcHeight, w, covenantQuorum)

\* the order FilterTopNBTCValidators ranks by: higher power first, and among
\* equal powers the smaller key first
RanksBefore(a, b) ==
    \/ a.VotingPower > b.VotingPower
    \/ a.VotingPower = b.VotingPower /\ BytesLess(a.BtcPk, b.BtcPk)

RECURSIVE InsertRanked(_, _)
InsertRanked(sorted, x) ==
    IF Len(sorted) = 0 THEN <<x>>
    ELSE IF RanksBefore(x, Head(sorted)) THEN <<x>> \o sorted
    ELSE <<Head(sorted)>> \o InsertRanked(Tail(sorted), x)

RECURSIVE SortRanked(_)
SortRanked(validators) ==
    IF Len(validators) = 0 THEN <<>>
    ELSE InsertRanked(SortRanked(Tail(validators)), Head(validators))

\* types.FilterTopNBTCValidators: the n first validators in ranking order
FilterTopNBTCValidators(validators, n) ==
    LET sorted == SortRanked(validators)
    IN  SubSeq(sorted, 1, IF Len(sorted) <= n THEN Len(sorted) ELSE n)

\* ------------------------------------------------------------------- store
\* votingPowerStore: the entries whose key starts with the big-endian height,
\* with that prefix stripped
votingPowerStore(st, height) ==
    LET p  == Uint64ToBigEndian(height)
        ks == {k \in DOMAIN st : HasPrefix(k, p)}
    IN  [s \in {SubSeq(k, Len(p) + 1, Len(k)) : k \in ks} |-> st[p \o s]]

\* a SetVotingPower that writes under the height after the one given
SetVotingPowerNextHeight(st, valBTCPK, height, power) ==
    LET key == Uint64ToBigEndian(height + 1) \o valBTCPK
    IN  [k \in DOMAIN st \cup {key} |->
            IF k = key THEN Uint64ToBigEndian(power) ELSE st[k]]

\* SetVotingPower: store.Set(valBTCPK, power) under the height's prefix
SetVotingPower(st, valBTCPK, height, power) ==
    LET key == Uint64ToBigEndian(height) \o valBTCPK
    IN  [k \in DOMAIN st \cup {key} |->
            IF k = key THEN Uint64ToBigEndian(power) ELSE st[k]]

\* store.Get(key) on the prefix store of a height: the value under
\* height || key, or the empty slice when there is none
StoreGet(st, height, key) ==
    LET k == Uint64ToBigEndian(height) \o key
    IN  IF k \in DOMAIN st THEN st[k] ELSE <<>>

\* a GetVotingPower without the HasBTCValidator test
GetVotingPowerAnyKey(st, vals, valBTCPK, height) ==
    LET powerBytes == StoreGet(st, height, valBTCPK)
    IN  IF Len(powerBytes) = 0 THEN 0 ELSE BigEndianToUint64(powerBytes)

\* GetVotingPower: 0 for a key the registry does not hold or with no entry at
\* the height, else the stored power
GetVotingPower(st, vals, valBTCPK, height) ==
    IF valBTCPK \notin DOMAIN vals THEN 0
    ELSE LET powerBytes == StoreGet(st, height, valBTCPK)
         IN  IF Len(powerBytes) = 0 THEN 0 ELSE BigEndianToUint64(powerBytes)

\* HasVotingPowerTable: the iterator over the height's partition is valid
HasVotingPowerTable(st, height) == DOMAIN votingPowerStore(st, height) # {}

\* a GetVotingPowerTable without the nil return: an empty map for an empty
\* partition
GetVotingPowerTableNeverNil(st, height) ==
    LET s == votingPowerStore(st, height)
    IN  [isNil |-> FALSE, panics |-> FALSE,
         valSet |-> [x \in {MarshalHex(k) : k \in DOMAIN s} |->
                       BigEndianToUint64(
                           s[CHOOSE k \in DOMAIN s : MarshalHex(k) = x])]]

\* GetVotingPowerTable: nil when the partition is empty, else hex key -> power;
\* panics on a key that is no public key
GetVotingPowerTable(st, height) ==
    LET s == votingPowerStore(st, height)
    IN  IF DOMAIN s = {} THEN [isNil |-> TRUE, panics |-> FALSE, valSet |-> <<>>]
        ELSE IF \E k \in DOMAIN s : ~NewBIP340PubKeyOk(k)
        THEN [isNil |-> FALSE, panics |-> TRUE, valSet |-> <<>>]
        ELSE [isNil |-> FALSE, panics |-> FALSE,
              valSet |-> [x \in {MarshalHex(k) : k \in DOMAIN s} |->
                            BigEndianToUint64(
                                s[CHOOSE k \in DOMAIN s : MarshalHex(k) = x])]]

\* an activation height read from the last key of the store instead of the first
GetBTCStakingActivatedHeightLastKey(st) ==
    IF DOMAIN st # {}
    THEN [err |-> FALSE,
          height |-> BigEndianToUint64(KeysInOrder(DOMAIN st)[Cardinality(DOMAIN st)])]
    ELSE [err |-> TRUE, height |-> 0]

\* GetBTCStakingActivatedHeight: the height decoded from the first key of the
\* whole store, or ErrBTCStakingNotActivated when the store is empty
GetBTCStakingActivatedHeight(st) ==
    IF DOMAIN st # {}
    THEN [err |-> FALSE, height |-> BigEndianToUint64(KeysInOrder(DOMAIN st)[1])]
    ELSE [err |-> TRUE, height |-> 0]

\* IsBTCStakingActivated: the iterator over the whole store is valid
IsBTCStakingActivated(st) == DOMAIN st # {}

\* ------------------------------------------------------------------- tally
\* the keys of btcDelegatorStore(valBTCPK): the delegators of the validator
DelegatorKeys(c, valBTCPK) == {d.del : d \in {x \in c.dels : x.val = valBTCPK}}

\* getBTCDelegatorDelegations: the delegations of one (validator, delegator) pair
getBTCDelegatorDelegations(c, valBTCPK, delBTCPK) ==
    {x \in c.dels : x.val = valBTCPK /\ x.del = delBTCPK}

RECURSIVE SumDelegators(_, _, _)
SumDelegators(c, valBTCPK, delKeys) ==
    IF Len(delKeys) = 0 THEN 0
    ELSE BTCDelsVotingPower(getBTCDelegatorDelegations(c, valBTCPK, Head(delKeys)),
                            c.tip.height, c.w, c.quorum)
         + SumDelegators(c, valBTCPK, Tail(delKeys))

\* valPower: the sum over the validator's delegators, in iterator order
ValPower(c, valBTCPK) ==
    SumDelegators(c, valBTCPK, KeysInOrder(DelegatorKeys(c, valBTCPK)))

\* a slashed test that never skips
IsSlashedIgnored(btcVal) == FALSE

\* btcVal.IsSlashed(): the validator is skipped by the tally
IsSlashed(btcVal) == btcVal.slashed

\* a candidate test that lets a zero sum through
IsCandidateAlways(valPower) == TRUE

\* valPower > 0: the validator becomes a candidate
IsCandidate(valPower) == valPower > 0

RECURSIVE CollectActive(_, _)
CollectActive(c, valKeys) ==
    IF Len(valKeys) = 0 THEN <<>>
    ELSE LET valBTCPK == Head(valKeys)
             valPower == ValPower(c, valBTCPK)
             rest     == CollectActive(c, Tail(valKeys))
         IN  IF IsSlashed(c.vals[valBTCPK]) THEN rest
             ELSE IF IsCandidate(valPower)
             THEN <<[BtcPk |-> valBTCPK, VotingPower |-> valPower]>> \o rest
             ELSE rest

\* activeBTCVals: the non-slashed validators of positive power, in key order
ActiveBTCVals(c) == CollectActive(c, KeysInOrder(DOMAIN c.vals))

\* an enumeration that takes every record as it comes
CorruptedAtSkipped(c, valBTCPK) == FALSE

\* the enumeration panics at validator valBTCPK: its key does not decode, it
\* does not load, or, unless it is slashed, one of its delegator keys does not
\* decode or that delegator's delegations do not load
CorruptedAt(c, valBTCPK) ==
    \/ ~NewBIP340PubKeyOk(valBTCPK)
    \/ ~GetBTCValidatorOk(c.vals[valBTCPK])
    \/ /\ ~IsSlashed(c.vals[valBTCPK])
       /\ \E dk \in DelegatorKeys(c, valBTCPK) :
             \/ ~NewBIP340PubKeyOk(dk)
             \/ ~BTCDelegatorDelegationsOk(
                     getBTCDelegatorDelegations(c, valBTCPK, dk))

\* some validator of the registry makes the enumeration panic
CorruptedState(c) == \E k \in DOMAIN c.vals : CorruptedAt(c, k)

RECURSIVE SetAll(_, _, _)
SetAll(st, activeBTCVals, height) ==
    IF Len(activeBTCVals) = 0 THEN st
    ELSE SetAll(SetVotingPower(st, Head(activeBTCVals).BtcPk, height,
                               Head(activeBTCVals).VotingPower),
                Tail(activeBTCVals), height)

\* a tally that adds the power recorded at the height before to each sum
RecordVotingPowerTableCumulative(st, babylonTipHeight, c) ==
    IF ~c.tip.ok THEN [outcome |-> "skip", store |-> st]
    ELSE IF Len(ActiveBTCVals(c)) = 0 THEN [outcome |-> "skip", store |-> st]
    ELSE LET top == FilterTopNBTCValidators(ActiveBTCVals(c), c.cap)
         IN  [outcome |-> "written",
              store |-> SetAll(st,
                  [i \in DOMAIN top |->
                      [BtcPk |-> top[i].BtcPk,
                       VotingPower |-> top[i].VotingPower
                           + GetVotingPower(st, c.vals, top[i].BtcPk,
                                            babylonTipHeight - 1)]],
                  babylonTipHeight)]

\* a tally that writes every candidate, without the top-N filter
RecordVotingPowerTableUnfiltered(st, babylonTipHeight, c) ==
    IF ~c.tip.ok THEN [outcome |-> "skip", store |-> st]
    ELSE IF Len(ActiveBTCVals(c)) = 0 THEN [outcome |-> "skip", store |-> st]
    ELSE [outcome |-> "written",
          store |-> SetAll(st, ActiveBTCVals(c), babylonTipHeight)]

\* a tally that empties the height's partition before it writes
RecordVotingPowerTableFresh(st, babylonTipHeight, c) ==
    IF ~c.tip.ok THEN [outcome |-> "skip", store |-> st]
    ELSE IF Len(ActiveBTCVals(c)) = 0 THEN [outcome |-> "skip", store |-> st]
    ELSE [outcome |-> "written",
          store |-> SetAll([k \in {x \in DOMAIN st :
                                     ~HasPrefix(x, Uint64ToBigEndian(babylonTipHeight))}
                               |-> st[k]],
                           FilterTopNBTCValidators(ActiveBTCVals(c), c.cap),
                           babylonTipHeight)]

\* RecordVotingPowerTable at height babylonTipHeight: the outcome and the store
\* it leaves
RecordVotingPowerTable(st, babylonTipHeight, c) ==
    IF ~c.tip.ok THEN [outcome |-> "skip", store |-> st]
    ELSE IF CorruptedState(c) THEN [outcome |-> "panic", store |-> st]
    ELSE IF Len(ActiveBTCVals(c)) = 0 THEN [outcome |-> "skip", store |-> st]
    ELSE [outcome |-> "written",
          store |-> SetAll(st, FilterTopNBTCValidators(ActiveBTCVals(c), c.cap),
                           babylonTipHeight)]

\* ----------------------------------------------------------------- actions
GenesisCfg ==
    [vals |-> [k \in {} |-> [slashed |-> FALSE]], dels |-> {},
     quorum |-> 1, cap |-> 2, w |-> 1, tip |-> TipOk(2)]

\* validators A, B, C with scores 100, 80, 80, a slashed D with score 500
ScenarioCfg ==
    [vals |-> [k \in ValKeys |-> [slashed |-> (k = PKD)]],
     dels |-> ScenarioDelegations,
     quorum |-> 2, cap |-> 2, w |-> 1, tip |-> TipOk(2)]

InitCfgs == {GenesisCfg, ScenarioCfg}

Init ==
    /\ blockHeight = FirstHeight
    /\ tallied = FALSE
    /\ \E c \in InitCfgs :
          /\ btcValidatorStore = c.vals
          /\ btcDelegations = c.dels
          /\ params = [CovenantQuorum |-> c.quorum, MaxActiveBtcValidators |-> c.cap]
          /\ btccParams = [CheckpointFinalizationTimeout |-> c.w]
          /\ btcTip = c.tip
    /\ store = EmptyStore
    /\ changes = 0
    /\ history = <<>>
    /\ run = Idle
    /\ committed = EmptyStore
    /\ msg = NoMsg

\* a message of the block changes state before the block's tally starts, and
\* the run holds at most MaxChanges of them
MayChange == ~tallied /\ run.pc = "idle" /\ changes < MaxChanges

\* a validator is registered, not slashed
CreateBTCValidator(pk) ==
    /\ MayChange
    /\ pk \notin DOMAIN btcValidatorStore
    /\ btcValidatorStore' =
          [k \in DOMAIN btcValidatorStore \cup {pk} |->
              IF k = pk THEN [slashed |-> FALSE] ELSE btcValidatorStore[k]]
    /\ changes' = changes + 1
    /\ UNCHANGED <<blockHeight, tallied, btcDelegations, params, btccParams,
                   btcTip, store, history>>
    /\ UNCHANGED <<run, committed, msg>>

\* a registered validator is slashed; nothing clears the flag
SlashBTCValidator(pk) ==
    /\ MayChange
    /\ pk \in DOMAIN btcValidatorStore
    /\ ~btcValidatorStore[pk].slashed
    /\ btcValidatorStore' = [btcValidatorStore EXCEPT ![pk] = [slashed |-> TRUE]]
    /\ changes' = changes + 1
    /\ UNCHANGED <<blockHeight, tallied, btcDelegations, params, btccParams,
                   btcTip, store, history>>
    /\ UNCHANGED <<run, committed, msg>>

\* a delegation to a registered validator is added
CreateBTCDelegation(d) ==
    /\ MayChange
    /\ d \notin btcDelegations
    /\ d.val \in DOMAIN btcValidatorStore
    /\ btcDelegations' = btcDelegations \cup {d}
    /\ changes' = changes + 1
    /\ UNCHANGED <<blockHeight, tallied, btcValidatorStore, params, btccParams,
                   btcTip, store, history>>
    /\ UNCHANGED <<run, committed, msg>>

\* the covenant quorum of the btcstaking parameters changes
SetCovenantQuorum(q) ==
    /\ MayChange
    /\ q # params.CovenantQuorum
    /\ params' = [params EXCEPT !.CovenantQuorum = q]
    /\ changes' = changes + 1
    /\ UNCHANGED <<blockHeight, tallied, btcValidatorStore, btcDelegations,
                   btccParams, btcTip, store, history>>
    /\ UNCHANGED <<run, committed, msg>>

\* the cap of the btcstaking parameters changes
SetMaxActiveBtcValidators(n) ==
    /\ MayChange
    /\ n # params.MaxActiveBtcValidators
    /\ params' = [params EXCEPT !.MaxActiveBtcValidators = n]
    /\ changes' = changes + 1
    /\ UNCHANGED <<blockHeight, tallied, btcValidatorStore, btcDelegations,
                   btccParams, btcTip, store, history>>
    /\ UNCHANGED <<run, committed, msg>>

\* the btccheckpoint finalization timeout changes
SetBtccParams(w) ==
    /\ MayChange
    /\ btccParams' = [CheckpointFinalizationTimeout |-> w]
    /\ btccParams' # btccParams
    /\ changes' = changes + 1
    /\ UNCHANGED <<blockHeight, tallied, btcValidatorStore, btcDelegations,
                   params, btcTip, store, history>>
    /\ UNCHANGED <<run, committed, msg>>

\* the answer of the BTC tip-height lookup changes
SetBTCTip(t) ==
    /\ MayChange
    /\ t # btcTip
    /\ btcTip' = t
    /\ changes' = changes + 1
    /\ UNCHANGED <<blockHeight, tallied, btcValidatorStore, btcDelegations,
                   params, btccParams, store, history>>
    /\ UNCHANGED <<run, committed, msg>>

\* EndBlock: the tally of the current height, once per block
EndBlock ==
    /\ ~tallied
    /\ LET r == RecordVotingPowerTable(store, blockHeight, Cfg)
       IN  /\ store' = r.store
           /\ history' = Append(history, [height |-> blockHeight, cfg |-> Cfg,
                                          before |-> store, outcome |-> r.outcome])
    /\ tallied' = TRUE
    /\ UNCHANGED <<blockHeight, btcValidatorStore, btcDelegations, params,
                   btccParams, btcTip, changes>>
    /\ UNCHANGED <<run, committed, msg>>

\* the next block starts
BeginBlock ==
    /\ tallied
    /\ blockHeight + 1 \in Heights
    /\ blockHeight' = blockHeight + 1
    /\ tallied' = FALSE
    /\ UNCHANGED <<btcValidatorStore, btcDelegations, params, btccParams, btcTip,
                   store, changes, history>>
    /\ UNCHANGED <<run, committed, msg>>

Next ==
    \/ \E pk \in ValKeys : CreateBTCValidator(pk)
    \/ \E pk \in ValKeys : SlashBTCValidator(pk)
    \/ \E d \in DelegationUniverse : CreateBTCDelegation(d)
    \/ \E q \in Quorums : SetCovenantQuorum(q)
    \/ \E n \in Caps : SetMaxActiveBtcValidators(n)
    \/ \E w \in Windows : SetBtccParams(w)
    \/ \E t \in TipResults : SetBTCTip(t)
    \/ EndBlock
    \/ BeginBlock

Spec == Init /\ [][Next]_vars

\* ------------------------------------------------- the tally step by step
\* a key one byte longer than a public key
BadKey(pk) == pk \o <<0>>

\* a stored record that does not unmarshal
Garbled(rec) ==
    [f \in DOMAIN rec \cup {"unmarshalErr"} |->
        IF f = "unmarshalErr" THEN TRUE ELSE rec[f]]

CorruptionKinds == {"validatorKey", "validator", "delegatorKey", "delegation"}
CorruptibleKeys == {PKB, PKD}

\* some stored key is no public key or some stored record does not unmarshal
Corrupted ==
    \/ \E k \in DOMAIN btcValidatorStore :
          ~NewBIP340PubKeyOk(k) \/ ~GetBTCValidatorOk(btcValidatorStore[k])
    \/ \E d \in btcDelegations :
          ~NewBIP340PubKeyOk(d.del) \/ ~BTCDelegatorDelegationsOk({d})

\* the persisted state stops matching the schema at validator pk, once in a
\* run and between two tallies: a key that is no public key, or a value that
\* does not unmarshal
Corrupt(kind, pk) ==
    /\ ~tallied
    /\ run.pc = "idle"
    /\ ~Corrupted
    /\ pk \in DOMAIN btcValidatorStore
    /\ \/ /\ kind = "validatorKey"
          /\ BadKey(pk) \notin DOMAIN btcValidatorStore
          /\ btcValidatorStore' =
                [k \in DOMAIN btcValidatorStore \cup {BadKey(pk)} |->
                    IF k = BadKey(pk) THEN [slashed |-> FALSE]
                    ELSE btcValidatorStore[k]]
          /\ UNCHANGED btcDelegations
       \/ /\ kind = "validator"
          /\ btcValidatorStore' =
                [btcValidatorStore EXCEPT ![pk] = Garbled(btcValidatorStore[pk])]
          /\ UNCHANGED btcDelegations
       \/ /\ kind = "delegatorKey"
          /\ Deleg(pk, BadKey(DelA), 10, 1, 9, 2) \notin btcDelegations
          /\ btcDelegations' =
                btcDelegations \cup {Deleg(pk, BadKey(DelA), 10, 1, 9, 2)}
          /\ UNCHANGED btcValidatorStore
       \/ /\ kind = "delegation"
          /\ Garbled(Deleg(pk, DelB, 10, 1, 9, 2)) \notin btcDelegations
          /\ btcDelegations' =
                btcDelegations \cup {Garbled(Deleg(pk, DelB, 10, 1, 9, 2))}
          /\ UNCHANGED btcValidatorStore
    /\ UNCHANGED <<blockHeight, tallied, params, btccParams, btcTip, store,
                   changes, history, run, committed, msg>>

\* a query beside the tally that reads the block's uncommitted writes
ReaderViewUncommitted == store

\* what a query beside the tally reads: the state of the last block commit
ReaderView == committed

\* an entry that tries the tip lookup again until it succeeds
TallyStartRetry ==
    /\ ~tallied
    /\ run.pc = "idle"
    /\ run' = IF ~btcTip.ok THEN run
              ELSE [Idle EXCEPT !.pc = "scan",
                                !.iter = KeysInOrder(DOMAIN btcValidatorStore)]
    /\ UNCHANGED <<blockHeight, tallied, btcValidatorStore, btcDelegations,
                   params, btccParams, btcTip, store, changes, history,
                   committed, msg>>

\* RecordVotingPowerTable is entered: the tip lookup, and on its failure the
\* return
TallyStart ==
    /\ ~tallied
    /\ run.pc = "idle"
    /\ run' = IF ~btcTip.ok THEN [Idle EXCEPT !.pc = "skip"]
              ELSE [Idle EXCEPT !.pc = "scan",
                                !.iter = KeysInOrder(DOMAIN btcValidatorStore)]
    /\ UNCHANGED <<blockHeight, tallied, btcValidatorStore, btcDelegations,
                   params, btccParams, btcTip, store, changes, history,
                   committed, msg>>

\* one turn of the validator loop: panic, skip a slashed validator, or sum the
\* delegations and keep a candidate
ScanValidator ==
    /\ run.pc = "scan"
    /\ Len(run.iter) > 0
    /\ LET valBTCPK == Head(run.iter)
       IN  run' =
             IF CorruptedAt(Cfg, valBTCPK)
             THEN [run EXCEPT !.pc = "panic", !.at = valBTCPK]
             ELSE IF IsSlashed(btcValidatorStore[valBTCPK])
             THEN [run EXCEPT !.iter = Tail(run.iter)]
             ELSE IF IsCandidate(ValPower(Cfg, valBTCPK))
             THEN [run EXCEPT !.iter = Tail(run.iter),
                              !.active = Append(run.active,
                                  [BtcPk |-> valBTCPK,
                                   VotingPower |-> ValPower(Cfg, valBTCPK)])]
             ELSE [run EXCEPT !.iter = Tail(run.iter)]
    /\ UNCHANGED <<blockHeight, tallied, btcValidatorStore, btcDelegations,
                   params, btccParams, btcTip, store, changes, history,
                   committed, msg>>

\* the validator loop is over: return without candidates, else cut to the top
\* MaxActiveBtcValidators
ScanDone ==
    /\ run.pc = "scan"
    /\ Len(run.iter) = 0
    /\ run' = IF Len(run.active) = 0 THEN [run EXCEPT !.pc = "skip"]
              ELSE [run EXCEPT !.pc = "write",
                               !.active = FilterTopNBTCValidators(
                                              run.active,
                                              params.MaxActiveBtcValidators)]
    /\ UNCHANGED <<blockHeight, tallied, btcValidatorStore, btcDelegations,
                   params, btccParams, btcTip, store, changes, history,
                   committed, msg>>

\* one turn of the write loop
WriteEntry ==
    /\ run.pc = "write"
    /\ Len(run.active) > 0
    /\ store' = SetVotingPower(store, Head(run.active).BtcPk, blockHeight,
                               Head(run.active).VotingPower)
    /\ run' = [run EXCEPT !.active = Tail(run.active)]
    /\ UNCHANGED <<blockHeight, tallied, btcValidatorStore, btcDelegations,
                   params, btccParams, btcTip, changes, history, committed, msg>>

\* the write loop is over: RecordVotingPowerTable returns
WriteDone ==
    /\ run.pc = "write"
    /\ Len(run.active) = 0
    /\ run' = [run EXCEPT !.pc = "written"]
    /\ UNCHANGED <<blockHeight, tallied, btcValidatorStore, btcDelegations,
                   params, btccParams, btcTip, store, changes, history,
                   committed, msg>>

\* the block of a returned tally commits: its writes become what queries read
Commit ==
    /\ run.pc \in {"skip", "written"}
    /\ committed' = store
    /\ history' = Append(history, [height |-> blockHeight, cfg |-> Cfg,
                                   before |-> committed, outcome |-> run.pc])
    /\ tallied' = TRUE
    /\ run' = Idle
    /\ UNCHANGED <<blockHeight, btcValidatorStore, btcDelegations, params,
                   btccParams, btcTip, store, changes, msg>>

\* a panicked tally halts block processing: no step follows run.pc = "panic"
NextSteps ==
    \/ \E t \in TipResults : SetBTCTip(t)
    \/ \E kind \in CorruptionKinds, pk \in CorruptibleKeys : Corrupt(kind, pk)
    \/ TallyStart
    \/ ScanValidator
    \/ ScanDone
    \/ WriteEntry
    \/ WriteDone
    \/ Commit
    \/ BeginBlock

\* the steps of a tally are taken as long as one is enabled
FairSteps ==
    /\ WF_vars(TallyStart)
    /\ WF_vars(ScanValidator)
    /\ WF_vars(ScanDone)
    /\ WF_vars(WriteEntry)
    /\ WF_vars(WriteDone)
    /\ WF_vars(Commit)

SpecSteps == Init /\ [][NextSteps]_vars /\ FairSteps

\* --------------------------------------------------- the tally run again
\* the tallies run so far beyond the first
Replays == Len(history) - 1

\* the tally is invoked again in the context of the same block, at most
\* MaxReplays times in a run: the height comes from the context, so the next
\* run writes under the same height
Retally ==
    /\ tallied
    /\ Replays < MaxReplays
    /\ tallied' = FALSE
    /\ UNCHANGED <<blockHeight, btcValidatorStore, btcDelegations, params,
                   btccParams, btcTip, store, changes, history>>
    /\ UNCHANGED <<run, committed, msg>>

NextReplay ==
    \/ \E pk \in ValKeys : CreateBTCValidator(pk)
    \/ \E pk \in ValKeys : SlashBTCValidator(pk)
    \/ \E d \in DelegationUniverse : CreateBTCDelegation(d)
    \/ \E q \in Quorums : SetCovenantQuorum(q)
    \/ \E n \in Caps : SetMaxActiveBtcValidators(n)
    \/ \E w \in Windows : SetBtccParams(w)
    \/ \E t \in TipResults : SetBTCTip(t)
    \/ EndBlock
    \/ Retally

\* the tally applied more than once at the first height
SpecReplay == Init /\ [][NextReplay]_vars

\* ------------------------------------------------------------ MsgAddBlsSig
\* the account prefix of the sdk configuration
Bech32Prefix == "bbn"

\* an address string: human-readable part, payload bytes, whether the
\* checksum matches; blank for the empty or all-space string
Bech32(hrp, payload, sumOk) ==
    [blank |-> FALSE, hrp |-> hrp, payload |-> payload, sumOk |-> sumOk]

BlankAddress == [blank |-> TRUE, hrp |-> "", payload |-> <<>>, sumOk |-> FALSE]

\* payloads of 0, 1, 2 and 256 bytes
Payloads == {<<>>, <<7>>, <<7, 8>>, [i \in 1 .. 256 |-> 7]}

SignerAddresses ==
    {BlankAddress} \cup
    {Bech32(h, b, c) : h \in {Bech32Prefix, "cosmos"}, b \in Payloads, c \in BOOLEAN}

MsgAddBlsSigs == {[BlsSig |-> [SignerAddress |-> a]] : a \in SignerAddresses}

\* sdk.AccAddressFromBech32: the error, or the payload as the address
AccAddressFromBech32(address) ==
    IF address.blank
    THEN [err |-> "empty address string is not allowed", addr |-> <<>>]
    ELSE IF ~address.sumOk
    THEN [err |-> "decoding bech32 failed", addr |-> <<>>]
    ELSE IF address.hrp # Bech32Prefix
    THEN [err |-> "invalid Bech32 prefix", addr |-> <<>>]
    ELSE IF Len(address.payload) = 0
    THEN [err |-> "addresses cannot be empty", addr |-> <<>>]
    ELSE IF Len(address.payload) > 255
    THEN [err |-> "address max length is 255", addr |-> <<>>]
    ELSE [err |-> "", addr |-> address.payload]

\* a ValidateBasic that accepts every message
ValidateBasicNoCheck(m) == ""

\* ValidateBasic: the error of the signer address, "" for nil
ValidateBasic(m) ==
    LET r == AccAddressFromBech32(m.BlsSig.SignerAddress)
    IN  IF r.err # "" THEN r.err ELSE ""

\* GetSigners: panics on the error of the signer address, else the one signer
GetSigners(m) ==
    LET r == AccAddressFromBech32(m.BlsSig.SignerAddress)
    IN  IF r.err # "" THEN [state |-> "panic", signers |-> <<>>]
        ELSE [state |-> "returned", signers |-> <<r.addr>>]

Pending == [state |-> "pending", signers |-> <<>>]

\* a message arrives
ReceiveMsg(m) ==
    /\ msg' = [received |-> TRUE, m |-> m, validated |-> "pending",
               signers |-> Pending]
    /\ msg' # msg
    /\ UNCHANGED <<blockHeight, tallied, btcValidatorStore, btcDelegations,
                   params, btccParams, btcTip, store, changes, history, run,
                   committed>>

\* ValidateBasic is called on the message
CallValidateBasic ==
    /\ msg.received
    /\ msg.validated = "pending"
    /\ msg' = [msg EXCEPT !.validated =
                  IF ValidateBasic(msg.m) = "" THEN "nil" ELSE "error"]
    /\ UNCHANGED <<blockHeight, tallied, btcValidatorStore, btcDelegations,
                   params, btccParams, btcTip, store, changes, history, run,
                   committed>>

\* GetSigners is called on the message
CallGetSigners ==
    /\ msg.received
    /\ msg.signers.state = "pending"
    /\ msg' = [msg EXCEPT !.signers = GetSigners(msg.m)]
    /\ UNCHANGED <<blockHeight, tallied, btcValidatorStore, btcDelegations,
                   params, btccParams, btcTip, store, changes, history, run,
                   committed>>

NextMsg ==
    \/ \E m \in MsgAddBlsSigs : ReceiveMsg(m)
    \/ CallValidateBasic
    \/ CallGetSigners

SpecMsg == Init /\ [][NextMsg]_vars

\* ------------------------------------------------------ reading the state
\* the heights the properties look at: those of the run and their neighbours
CheckedHeights == Heights \cup {FirstHeight - 1, FirstHeight + MaxBlocks}

\* the keys the properties look at: the validators and a key never registered
CheckedKeys == ValKeys \cup {DelA}

\* the entries of a height as a set of <<key, power>> pairs
Entries(st, height) ==
    LET s == votingPowerStore(st, height)
    IN  {<<k, BigEndianToUint64(s[k])>> : k \in DOMAIN s}

\* the non-slashed validators of configuration c with a positive summed score
Candidates(c) ==
    {<<k, ValPower(c, k)>> :
        k \in {x \in DOMAIN c.vals : ~c.vals[x].slashed /\ ValPower(c, x) > 0}}

SlashedIn(c, k) == k \in DOMAIN c.vals /\ c.vals[k].slashed

Tallies == DOMAIN history

\* C1: every height with a table was tallied, has only entries of positive
\* power, and at most as many entries as the cap in force at its tally
C1_PositiveAndCapped ==
    \A h \in CheckedHeights :
        LET E == Entries(store, h)
        IN  HasVotingPowerTable(store, h) =>
                \E i \in Tallies :
                    /\ history[i].height = h
                    /\ \A e \in E : e[2] > 0
                    /\ Cardinality(E) <= history[i].cfg.cap

\* a table filled to its cap with a candidate left out, the cap lowered since
C1_Witness ==
    \E i \in Tallies :
        /\ Cardinality(Entries(store, history[i].height)) = history[i].cfg.cap
        /\ Cardinality(Candidates(history[i].cfg)) > history[i].cfg.cap
        /\ params.MaxActiveBtcValidators < history[i].cfg.cap
        /\ history[i].cfg.cap > 0

\* C2: the activation height is the smallest height with a table, the error
\* is returned exactly when no height has one, and IsBTCStakingActivated
\* tells whether such a height exists
C2_ActivationIsSmallestHeight ==
    LET hs == {h \in CheckedHeights : HasVotingPowerTable(store, h)}
        r  == GetBTCStakingActivatedHeight(store)
    IN  /\ r.err <=> hs = {}
        /\ ~r.err => r.height \in hs /\ \A h \in hs : r.height <= h
        /\ IsBTCStakingActivated(store) <=> hs # {}

\* tables at two heights on both sides of a byte boundary, none at the first
\* height of the run
C2_Witness ==
    /\ ~HasVotingPowerTable(store, FirstHeight)
    /\ HasVotingPowerTable(store, FirstHeight + 1)
    /\ HasVotingPowerTable(store, FirstHeight + 2)
    /\ GetBTCStakingActivatedHeight(store).height = FirstHeight + 1
    /\ Cardinality(DOMAIN votingPowerStore(store, FirstHeight + 1)) > 1

\* C3 as stated: GetVotingPower is 0 for a key slashed in the current
\* registry and for a key with no entry at the height
C3_ZeroWhenSlashedNow ==
    \A k \in CheckedKeys, h \in CheckedHeights :
        (SlashedIn(Cfg, k) \/ k \notin DOMAIN votingPowerStore(store, h))
            => GetVotingPower(store, btcValidatorStore, k, h) = 0

\* C3 amended: GetVotingPower is 0 for a key with no entry at the height, and
\* so for a key slashed when the height was tallied; a registered key with an
\* entry gets the stored power, slashed since or not
C3_ZeroWhenAbsentOrSlashedAtTally ==
    \A h \in CheckedHeights :
        LET s == votingPowerStore(store, h)
        IN  \A k \in CheckedKeys :
                LET power == GetVotingPower(store, btcValidatorStore, k, h)
                IN  /\ k \notin DOMAIN s => power = 0
                    /\ (\E i \in Tallies :
                           history[i].height = h /\ SlashedIn(history[i].cfg, k))
                          => power = 0
                    /\ (k \in DOMAIN btcValidatorStore /\ k \in DOMAIN s)
                          => power = BigEndianToUint64(s[k]) /\ power > 0

\* a validator recorded with positive power and slashed afterwards, next to
\* one slashed before the tally whose delegations score
C3_Witness ==
    \E i \in Tallies, k \in ValKeys, d \in ValKeys :
        /\ SlashedIn(Cfg, k) /\ ~SlashedIn(history[i].cfg, k)
        /\ GetVotingPower(store, btcValidatorStore, k, history[i].height) > 0
        /\ SlashedIn(history[i].cfg, d) /\ ValPower(history[i].cfg, d) > 0
        /\ GetVotingPower(store, btcValidatorStore, d, history[i].height) = 0

\* C4: a step changes no partition but that of the height being tallied, and
\* changes that one only while its tally has not run: every key written or
\* rewritten carries the current height, every other height's entries and
\* GetVotingPowerTable result stay what they were
C4_WritesConfinedToHeight ==
    [][ /\ \A k \in DOMAIN store' :
              (k \notin DOMAIN store \/ store'[k] # store[k])
                  => ~tallied /\ HasPrefix(k, Uint64ToBigEndian(blockHeight))
        /\ DOMAIN store \subseteq DOMAIN store'
        /\ \A h \in CheckedHeights :
              (h # blockHeight \/ tallied) =>
                  /\ votingPowerStore(store', h) = votingPowerStore(store, h)
                  /\ GetVotingPowerTable(store', h) = GetVotingPowerTable(store, h)
      ]_vars

\* tables written at two heights, with different content, the second one
\* after the first was committed
C4_Witness ==
    \E i, j \in Tallies :
        /\ i < j
        /\ history[i].outcome = "written" /\ history[j].outcome = "written"
        /\ Entries(store, history[i].height) # {}
        /\ Entries(store, history[j].height) # {}
        /\ Entries(store, history[i].height) # Entries(store, history[j].height)

\* C5: once GetBTCStakingActivatedHeight returns a height, every later state
\* returns the same one, and IsBTCStakingActivated stays true
C5_ActivationStable ==
    [][ ~GetBTCStakingActivatedHeight(store).err =>
            /\ GetBTCStakingActivatedHeight(store') = GetBTCStakingActivatedHeight(store)
            /\ IsBTCStakingActivated(store')
      ]_vars

\* activated at the first height, a later tally skipped and a later one written
C5_Witness ==
    /\ GetBTCStakingActivatedHeight(store) = [err |-> FALSE, height |-> FirstHeight]
    /\ \E i, j \in Tallies :
          /\ history[i].height > FirstHeight /\ history[i].outcome = "skip"
          /\ history[j].height > FirstHeight /\ history[j].outcome = "written"
          /\ HasVotingPowerTable(store, history[j].height)

\* C6: a tally whose tip-height lookup failed wrote nothing, its height has no
\* table in any later state, and the tally of the next height left the table
\* it would have left had the lookup succeeded with any tip
C6_TipFailureSkipsHeightOnly ==
    \A i \in Tallies :
        ~history[i].cfg.tip.ok =>
            /\ history[i].outcome = "skip"
            /\ ~HasVotingPowerTable(store, history[i].height)
            /\ GetVotingPowerTable(store, history[i].height).isNil
            /\ (i + 1 \in Tallies) =>
                  \A t \in OkTips :
                      LET h   == history[i].height
                          alt == RecordVotingPowerTable(
                                     history[i].before, h,
                                     [history[i].cfg EXCEPT !.tip = t]).store
                          nxt == RecordVotingPowerTable(alt, h + 1, history[i + 1].cfg).store
                      IN  /\ history[i + 1].height = h + 1
                          /\ votingPowerStore(nxt, h + 1) = votingPowerStore(store, h + 1)

\* the lookup failed at a height where validators had delegations that score,
\* and the next height has a table
C6_Witness ==
    \E i \in Tallies :
        /\ ~history[i].cfg.tip.ok
        /\ i + 1 \in Tallies
        /\ Candidates([history[i].cfg EXCEPT !.tip = TipOk(2)]) # {}
        /\ ~HasVotingPowerTable(store, history[i].height)
        /\ HasVotingPowerTable(store, history[i].height + 1)

\* C7: a tally that found a tip and no non-slashed validator of positive
\* summed score wrote nothing: its height has no table, and
\* GetVotingPowerTable gives nil, not an empty map
C7_NoCandidateNoTable ==
    \A i \in Tallies :
        (/\ history[i].cfg.tip.ok
         /\ \A k \in DOMAIN history[i].cfg.vals :
               ~history[i].cfg.vals[k].slashed => ValPower(history[i].cfg, k) = 0)
        => /\ ~HasVotingPowerTable(store, history[i].height)
           /\ GetVotingPowerTable(store, history[i].height).isNil
           /\ Entries(store, history[i].height) = {}

\* a tally over registered validators holding delegations, all of score zero
C7_Witness ==
    \E i \in Tallies :
        /\ history[i].cfg.tip.ok
        /\ \E k \in DOMAIN history[i].cfg.vals :
              ~history[i].cfg.vals[k].slashed /\ DelegatorKeys(history[i].cfg, k) # {}
        /\ \A k \in DOMAIN history[i].cfg.vals :
              ~history[i].cfg.vals[k].slashed => ValPower(history[i].cfg, k) = 0
        /\ ~HasVotingPowerTable(store, history[i].height)

\* C8: a validator slashed when a height is tallied has no entry at that
\* height nor at any height tallied later, and takes no slot: the table holds
\* as many entries as the cap allows among the non-slashed candidates
C8_SlashedExcluded ==
    \A j \in Tallies :
        LET s == votingPowerStore(store, history[j].height)
            n == Cardinality(Candidates(history[j].cfg))
        IN  /\ \A i \in 1 .. j, k \in CheckedKeys :
                  SlashedIn(history[i].cfg, k)
                      => SlashedIn(history[j].cfg, k) /\ k \notin DOMAIN s
            /\ history[j].cfg.tip.ok =>
                  Cardinality(DOMAIN s) =
                      IF n <= history[j].cfg.cap THEN n ELSE history[j].cfg.cap

\* a slashed validator with the largest score, absent from the tables of two
\* heights, each filled by non-slashed validators
C8_Witness ==
    \E i, j \in Tallies, k \in ValKeys :
        /\ i < j
        /\ SlashedIn(history[i].cfg, k)
        /\ \A x \in Candidates(history[j].cfg) : ValPower(history[j].cfg, k) > x[2]
        /\ Cardinality(Entries(store, history[i].height)) = history[i].cfg.cap
        /\ Cardinality(Entries(store, history[j].height)) = history[j].cfg.cap
        /\ history[j].cfg.cap > 0 /\ history[i].cfg.cap > 0
        /\ k \notin DOMAIN votingPowerStore(store, history[i].height)
        /\ k \notin DOMAIN votingPowerStore(store, history[j].height)

\* the configuration of the scenario: A scores 100, B and C score 80, D is
\* slashed and scores 500, the cap is 2
IsScenario(c) ==
    /\ c.tip.ok /\ c.cap = 2
    /\ DOMAIN c.vals = ValKeys
    /\ \A k \in ValKeys : c.vals[k].slashed <=> k = PKD
    /\ ValPower(c, PKA) = 100 /\ ValPower(c, PKB) = 80
    /\ ValPower(c, PKC) = 80 /\ ValPower(c, PKD) = 500

\* C9: with more candidates than the cap the table holds exactly cap entries,
\* each a candidate with its score, and every entry ranks before every
\* candidate left out (higher power, or equal power and smaller key); in the
\* scenario the table is exactly {A: 100, B: 80}
C9_TopNByPowerThenKey ==
    \A i \in Tallies :
        LET c == history[i].cfg
            T == Entries(store, history[i].height)
            K == Candidates(c)
        IN  /\ (c.tip.ok /\ Cardinality(K) > c.cap) =>
                  /\ Cardinality(T) = c.cap
                  /\ T \subseteq K
                  /\ \A x \in T, y \in K \ T :
                        \/ x[2] > y[2]
                        \/ x[2] = y[2] /\ BytesLess(x[1], y[1])
            /\ IsScenario(c) =>
                  /\ T = {<<PKA, 100>>, <<PKB, 80>>}
                  /\ GetVotingPowerTable(store, history[i].height).valSet
                        = (MarshalHex(PKA) :> 100 @@ MarshalHex(PKB) :> 80)

\* the scenario was tallied
C9_Witness ==
    \E i \in Tallies :
        /\ IsScenario(history[i].cfg)
        /\ Cardinality(Entries(store, history[i].height)) = 2

\* the keys of the whole store whose height segment decodes to height
RawKeysAt(st, height) == {k \in DOMAIN st : BigEndianToUint64(k) = height}

\* a map as the set of its <<key, value>> pairs
Graph(f) == {<<x, f[x]>> : x \in DOMAIN f}

\* C13: HasVotingPowerTable(H) holds exactly when some stored key carries
\* height H; GetVotingPowerTable(H) is nil exactly when it does not, and
\* otherwise a non-empty map holding exactly the entries stored at H
C13_TableNilIffNoEntry ==
    \A h \in CheckedHeights :
        LET raw == RawKeysAt(store, h)
            t   == GetVotingPowerTable(store, h)
        IN  /\ HasVotingPowerTable(store, h) <=> raw # {}
            /\ t.isNil <=> ~HasVotingPowerTable(store, h)
            /\ ~t.isNil =>
                  /\ ~t.panics
                  /\ DOMAIN t.valSet # {}
                  /\ Graph(t.valSet) =
                        {<<MarshalHex(SubSeq(k, Uint64Len + 1, Len(k))),
                           BigEndianToUint64(store[k])>> : k \in raw}

\* a skipped height that reads nil, a height with its table of two entries,
\* and the current height with the first of its entries written
C13_Witness ==
    /\ run.pc = "write"
    /\ Cardinality(DOMAIN GetVotingPowerTable(store, blockHeight).valSet) = 1
    /\ \E i, j \in Tallies :
          /\ history[i].outcome = "skip"
          /\ GetVotingPowerTable(store, history[i].height).isNil
          /\ ~HasVotingPowerTable(store, history[i].height)
          /\ Cardinality(DOMAIN GetVotingPowerTable(store, history[j].height).valSet) = 2

\* the sum of the scores of a set of delegations under configuration c
RECURSIVE SumScores(_, _)
SumScores(ds, c) ==
    IF ds = {} THEN 0
    ELSE LET d == CHOOSE x \in ds : TRUE
         IN  DelegationVotingPower(d, c.tip.height, c.w, c.quorum)
             + SumScores(ds \ {d}, c)

\* the summed score of validator k over its delegations under configuration c
DelegationSum(c, k) == SumScores({d \in c.dels : d.val = k}, c)

\* C14: every power recorded at a tallied height is the sum of the scores the
\* validator's delegations had at that tally, whatever was recorded before,
\* and a non-slashed validator whose sum is zero has no entry
C14_PowerIsCurrentSum ==
    \A i \in Tallies :
        LET c == history[i].cfg
            E == Entries(store, history[i].height)
        IN  /\ \A e \in E : e[2] = DelegationSum(c, e[1])
            /\ \A k \in DOMAIN c.vals :
                  DelegationSum(c, k) = 0 => \A e \in E : e[1] # k

\* a validator recorded at one height, recorded with another sum at the next,
\* and absent from a later height where its sum is zero
C14_Witness ==
    \E i, j, l \in Tallies, k \in ValKeys :
        /\ i < j /\ j < l
        /\ \E e1 \in Entries(store, history[i].height),
              e2 \in Entries(store, history[j].height) :
              e1[1] = k /\ e2[1] = k /\ e1[2] # e2[2]
        /\ history[l].cfg.tip.ok
        /\ DelegationSum(history[l].cfg, k) = 0
        /\ \A e \in Entries(store, history[l].height) : e[1] # k

\* the registry without key k
Without(vals, k) == [x \in DOMAIN vals \ {k} |-> vals[x]]

\* C15: GetVotingPower gives the stored power exactly when the registry holds
\* the key and the height has an entry for it, and 0 otherwise: for a key the
\* registry does not hold, entry or not, and for a key without entry
C15_PowerIffKnownAndStored ==
    \A h \in CheckedHeights :
        LET E == Entries(store, h)
        IN  \A k \in CheckedKeys :
                LET stored == {e \in E : e[1] = k}
                    power  == GetVotingPower(store, btcValidatorStore, k, h)
                IN  /\ (k \in DOMAIN btcValidatorStore /\ stored # {})
                          => <<k, power>> \in stored /\ power > 0
                    /\ (k \notin DOMAIN btcValidatorStore \/ stored = {})
                          => power = 0
                    /\ GetVotingPower(store, Without(btcValidatorStore, k), k, h) = 0

\* a key with a stored power that a registry holding it gets back and a
\* registry not holding it does not
C15_Witness ==
    \E h \in Heights, k \in ValKeys :
        /\ \E e \in Entries(store, h) : e[1] = k /\ e[2] > 0
        /\ GetVotingPower(store, btcValidatorStore, k, h) > 0
        /\ GetVotingPower(store, Without(btcValidatorStore, k), k, h) = 0
        /\ \E k2 \in ValKeys :
              k2 \in DOMAIN btcValidatorStore /\ \A e \in Entries(store, h) : e[1] # k2

\* C17: for a key of the registry GetVotingPower agrees with the map of
\* GetVotingPowerTable (0 when the map is nil or lacks the key), and every
\* key of the map was a registered, non-slashed validator of positive summed
\* score when the height was tallied
C17_PowerAgreesWithTable ==
    /\ \A h \in CheckedHeights :
          LET t == GetVotingPowerTable(store, h)
          IN  \A k \in DOMAIN btcValidatorStore :
                  GetVotingPower(store, btcValidatorStore, k, h) =
                      IF t.isNil \/ MarshalHex(k) \notin DOMAIN t.valSet THEN 0
                      ELSE t.valSet[MarshalHex(k)]
    /\ \A i \in Tallies :
          LET t == GetVotingPowerTable(store, history[i].height)
              c == history[i].cfg
          IN  \A x \in DOMAIN t.valSet :
                  \E k \in DOMAIN c.vals :
                      /\ MarshalHex(k) = x
                      /\ ~c.vals[k].slashed
                      /\ DelegationSum(c, k) > 0

\* a table of two keys, one of them slashed since, both read back by
\* GetVotingPower
C17_Witness ==
    \E i \in Tallies :
        LET t == GetVotingPowerTable(store, history[i].height)
        IN  /\ ~t.isNil
            /\ Cardinality(DOMAIN t.valSet) = 2
            /\ \E k \in ValKeys :
                  /\ SlashedIn(Cfg, k) /\ ~SlashedIn(history[i].cfg, k)
                  /\ MarshalHex(k) \in DOMAIN t.valSet
                  /\ GetVotingPower(store, btcValidatorStore, k, history[i].height)
                        = t.valSet[MarshalHex(k)]

\* the store as tally i left it: nothing but the tally writes the store
After(i) == IF i = Len(history) THEN store ELSE history[i + 1].before

\* the validator keys with an entry at height
KeysAt(st, height) == {e[1] : e \in Entries(st, height)}

\* the keys tally i writes by itself, on an empty store
WrittenBy(i) ==
    KeysAt(RecordVotingPowerTable(EmptyStore, history[i].height, history[i].cfg).store,
           history[i].height)

\* C18: a tally repeated at the same height with unchanged inputs leaves the
\* store as the run before left it; repeated after a change it leaves at the
\* height the keys it found there together with the keys it writes, stale
\* entries with the power they had
C18_RetallyLeavesUnion ==
    \A i \in Tallies :
        (i > 1 /\ history[i - 1].height = history[i].height) =>
            LET h      == history[i].height
                first  == history[i].before
                second == After(i)
            IN  /\ history[i].cfg = history[i - 1].cfg => second = first
                /\ KeysAt(second, h) = KeysAt(first, h) \cup WrittenBy(i)
                /\ \A e \in Entries(first, h) :
                      e[1] \notin WrittenBy(i) => e \in Entries(second, h)

\* a height tallied twice with the same inputs and again after a slashing:
\* the slashed validator's entry remains and the height holds more entries
\* than the cap
C18_Witness ==
    \E i, j \in Tallies :
        /\ i > 1 /\ j > 1
        /\ history[i - 1].height = history[i].height
        /\ history[i].cfg = history[i - 1].cfg
        /\ history[i].outcome = "written"
        /\ After(i) = history[i].before
        /\ history[j - 1].height = history[j].height
        /\ history[j].outcome = "written" /\ history[j].cfg.cap > 0
        /\ Cardinality(KeysAt(After(j), history[j].height)) > history[j].cfg.cap
        /\ \E k \in KeysAt(After(j), history[j].height) :
              SlashedIn(history[j].cfg, k) /\ k \notin WrittenBy(j)

\* the entries the tally of the current block leaves at height, once it is over
FinalEntries(height) ==
    IF height = blockHeight /\ ~tallied /\ run.pc # "idle"
    THEN Entries(RecordVotingPowerTable(committed, height, Cfg).store, height)
    ELSE Entries(store, height)

DelegationFields == DOMAIN Deleg(PKA, DelA, 0, 0, 0, 0)

\* the enumeration under configuration c meets a key that is no public key or
\* a record that does not load: among the validators, or among the
\* delegations of a validator that is not slashed
MeetsCorruption(c) ==
    \/ \E k \in DOMAIN c.vals :
          Len(k) # PkLen \/ DOMAIN c.vals[k] # {"slashed"}
    \/ \E d \in c.dels :
          /\ d.val \in DOMAIN c.vals
          /\ ~c.vals[d.val].slashed
          /\ Len(d.del) # PkLen \/ DOMAIN d # DelegationFields

\* C12: a tally whose enumeration meets an undecodable key or an unloadable
\* record ends in the panic and in no other way; when the panic is raised
\* nothing has been written, at the current height or at any other
C12_CorruptionPanicsBeforeWrites ==
    /\ (run.pc \in {"write", "written"} \/ (run.pc = "skip" /\ btcTip.ok))
          => ~MeetsCorruption(Cfg)
    /\ \A i \in Tallies :
          history[i].cfg.tip.ok => ~MeetsCorruption(history[i].cfg)
    /\ run.pc \in {"scan", "panic"} => store = committed
    /\ run.pc = "panic" =>
          /\ MeetsCorruption(Cfg)
          /\ Entries(store, blockHeight) = {}
          /\ \A g \in CheckedHeights : Entries(store, g) = Entries(ReaderView, g)

\* a panic in the middle of the enumeration, a candidate already collected
\* and a table at the height before
C12_Witness ==
    /\ run.pc = "panic"
    /\ Len(run.active) > 0
    /\ Len(run.iter) > 1
    /\ Entries(store, blockHeight - 1) # {}
    /\ Entries(store, blockHeight) = {}

\* the ways a tally ends
Outcomes == {"skip", "written", "panic"}

\* what each outcome leaves: a skip nothing, after a failed tip lookup or
\* without candidates; a written snapshot entries at the current height; a
\* panic a halted block
OutcomeAsEnded ==
    /\ run.pc = "skip" =>
          /\ store = committed
          /\ ~btcTip.ok \/ \A k \in DOMAIN btcValidatorStore :
                              btcValidatorStore[k].slashed \/ DelegationSum(Cfg, k) = 0
    /\ run.pc = "written" =>
          /\ btcTip.ok
          /\ Entries(store, blockHeight) # {}
          /\ Entries(committed, blockHeight) = {}
    /\ run.pc = "panic" => btcTip.ok /\ ~ENABLED NextSteps

\* C16: every tally ends, in a skip that wrote nothing, in a written snapshot
\* of the current height or in the panic; a failed tip lookup leads straight
\* to the skip, and the block of a skip goes on to its commit
C16_TallyEndsInOneOutcome ==
    /\ []OutcomeAsEnded
    /\ [][(run.pc = "idle" /\ run'.pc # "idle" /\ ~btcTip.ok) => run'.pc = "skip"]_vars
    /\ (~tallied) ~> (tallied \/ run.pc = "panic")
    /\ (run.pc \in {"scan", "write"}) ~> (run.pc \in Outcomes)
    /\ (run.pc = "skip") ~> tallied

\* a run that has seen the three outcomes: a skip on a failed tip lookup and a
\* written snapshot behind it, a panic now
C16_Witness ==
    /\ run.pc = "panic"
    /\ \E i, j \in Tallies :
          /\ history[i].outcome = "skip" /\ ~history[i].cfg.tip.ok
          /\ history[j].outcome = "written"

\* the signer address parses: not blank, checksum and prefix right, a payload
\* of 1 to 255 bytes
Parses(a) ==
    /\ ~a.blank
    /\ a.sumOk
    /\ a.hrp = Bech32Prefix
    /\ Len(a.payload) \in 1 .. 255

\* C19: ValidateBasic gives an error exactly for a message whose signer
\* address does not parse and GetSigners panics exactly for such a message;
\* on a message ValidateBasic accepted GetSigners returns one signer, the
\* parsed address
C19_GetSignersPanicsIffInvalid ==
    msg.received =>
        LET a == msg.m.BlsSig.SignerAddress
        IN  /\ msg.validated # "pending" =>
                  (msg.validated = "error" <=> ~Parses(a))
            /\ msg.signers.state # "pending" =>
                  (msg.signers.state = "panic" <=> ~Parses(a))
            /\ (msg.validated = "nil" /\ msg.signers.state # "pending") =>
                  /\ msg.signers.state = "returned"
                  /\ msg.signers.signers = <<a.payload>>

\* an accepted message that gave its signer, an address of two bytes
C19_Witness ==
    /\ msg.received
    /\ msg.validated = "nil"
    /\ msg.signers.state = "returned"
    /\ Len(msg.signers.signers) = 1
    /\ Len(msg.signers.signers[1]) = 2

====
